---- MODULE Spec2Model ----
\* A model of src/src/honeycomb.rs, one specification per operation:
\*   SpecPost      the retrying POST executor (post)
\*   SpecPoll      the polling loop of get_group_by_variants
\*   SpecVariants  one whole call of get_group_by_variants, step by step
\*   SpecOrdered   the ordered aggregator (process_datasets_columns)
\*   SpecColumns   the same, with rate-limited answers to its GETs
\*   SpecBounded   the bounded aggregator (get_all_group_by_variants), each
\*                 fetch taken as a whole
\*   SpecFetches   the same, with its fetches followed step by step
\*   SpecSlugs     get_dataset_slugs
EXTENDS Integers, Sequences, FiniteSets, TLC

\* ------------------------------------------------------------------------
\* Program constants
\* ------------------------------------------------------------------------

\* let mut retries = 12;
RETRIES == 12

\* reqwest::StatusCode::TOO_MANY_REQUESTS
TOO_MANY_REQUESTS == 429

\* let mut polls = 50;
POLLS == 50

\* .buffer_unordered(3)
BUFFER == 3

\* ------------------------------------------------------------------------
\* Bounds of the model
\* ------------------------------------------------------------------------

\* The transport answers at most this many requests of one POST call with a
\* rate-limited response before its final answer (more than RETRIES, so that
\* the budget can run out with answers to spare).
MaxThrottle == 14

\* The status fetch from which on the transport gives its final answer is at
\* most this (more than POLLS, so that a job can stay incomplete for all of
\* the poll budget).
MaxCompleteAt == 52

\* process_datasets_columns is given at most this many datasets.
MaxDatasets == 3

\* get_all_group_by_variants is given at most this many column ids.
MaxColumns == 4

\* process_datasets_columns is given at most this many datasets when the
\* transport may also answer a GET with a rate-limited response.
MaxGetDatasets == 2

\* The transport lists at most this many datasets.
MaxListed == 2

\* get_all_group_by_variants is given at most this many column ids when its
\* fetches are followed step by step.
MaxStepColumns == 3

\* ------------------------------------------------------------------------
\* Results: anyhow::Result<T>
\* ------------------------------------------------------------------------

ErrTransport == "transport error"
ErrParse == "Failed to parse JSON data"
ErrRetries == "Too many retries"

NoResult == [kind |-> "None", val |-> "", err |-> ""]
Ok(v) == [kind |-> "Ok", val |-> v, err |-> ""]
Err(e) == [kind |-> "Err", val |-> "", err |-> e]

\* The same for a Result<Vec<_>>
NoResultVec == [kind |-> "None", val |-> <<>>, err |-> ""]
ErrVec(e) == [kind |-> "Err", val |-> <<>>, err |-> e]

\* ------------------------------------------------------------------------
\* The transport's answer to one request
\*   sent   : send().await returned a response (FALSE: it returned an error)
\*   status : the response's status code
\*   body   : "err"  text().await returned an error
\*            "bad"  the text does not decode as the target type
\*            "good" the text decodes, to val
\* ------------------------------------------------------------------------

Ids == {"q1", "q2"}

Throttled == [sent |-> TRUE, status |-> TOO_MANY_REQUESTS, body |-> "good", val |-> ""]
SendFailure == [sent |-> FALSE, status |-> 0, body |-> "err", val |-> ""]

FinalResponses ==
    {SendFailure}
    \cup [sent : {TRUE}, status : {200, 500}, body : {"err", "bad"}, val : {""}]
    \cup [sent : {TRUE}, status : {200, 500}, body : {"good"}, val : Ids]

\* A transport that answers the first `throttles` requests of a call with a
\* rate-limited response and every later one with `final`.
PostPlans == [throttles : 0..MaxThrottle, final : FinalResponses]

PlanResponse(p, k) == IF k <= p.throttles THEN Throttled ELSE p.final

\* ------------------------------------------------------------------------
\* The status of a query result, as get_query_results decodes it (a
\* serde_json::Value):
\*   complete : "true" / "false" when value["complete"] is that boolean,
\*              "none" when the field is absent or is not a boolean
\*   results  : value["data"]["results"]; isArray says whether it is an
\*              array, rows are its elements
\*   a row    : r["data"][column_id]; isStr says whether it is a string, s is
\*              the string
\* ------------------------------------------------------------------------

StrRow(x) == [isStr |-> TRUE, s |-> x]
OtherRow == [isStr |-> FALSE, s |-> ""]
NoArray == [isArray |-> FALSE, rows |-> <<>>]
Array(rows) == [isArray |-> TRUE, rows |-> rows]

Payloads ==
    {NoArray, Array(<<>>), Array(<<StrRow("x")>>),
     Array(<<OtherRow, StrRow("y")>>), Array(<<StrRow("y"), StrRow("x")>>)}

Status(c, r) == [complete |-> c, results |-> r]
NotComplete == Status("false", NoArray)

StatusAnswer(code, v) == [sent |-> TRUE, status |-> code, body |-> "good", val |-> v]
StatusSendFailure == [sent |-> FALSE, status |-> 0, body |-> "err", val |-> NotComplete]

FinalStatusResponses ==
    {StatusSendFailure}
    \cup [sent : {TRUE}, status : {200}, body : {"err", "bad"}, val : {NotComplete}]
    \cup {StatusAnswer(code, Status(c, r)) :
            code \in {200, TOO_MANY_REQUESTS}, c \in {"true", "none"}, r \in Payloads}

\* A transport that answers the status fetches before the `at`-th with "not
\* complete" and the `at`-th and every later one with `final`.
PollPlans == [at : 1..MaxCompleteAt, final : FinalStatusResponses]

PollPlanResponse(p, k) == IF k < p.at THEN StatusAnswer(200, NotComplete) ELSE p.final

VARIABLES
    plan,      \* the transport's behaviour towards the POST call
    post,      \* the POST call: its position, `retries`, and what it has done
    pollPlan,  \* the transport's behaviour towards the status fetches
    gv,        \* get_group_by_variants: its position, `polls`, `results`
    \* process_datasets_columns
    datasets,             \* the input sequence of dataset slugs
    last_written,         \* the input age limit, in days
    tasks,                \* the FuturesOrdered: one future per pushed dataset
    next_outgoing_index,  \* the FuturesOrdered's index of the next output
    called,               \* the calls of f so far: <<dataset, columns>>
    delivered,            \* the input positions of those calls
    finished,             \* the input positions of the finished fetches, in order
    ordered,              \* process_datasets_columns: its position and result,
                          \* the future that is in its first poll (0: none) and
                          \* the futures that returned in their first poll
    codes,                \* the status codes the transport answers a GET with
    \* get_all_group_by_variants
    columns_ids,   \* the input sequence of column ids
    next_item,     \* the position the stream over columns_ids has reached
    started,       \* the input positions of the fetches started, in order
    in_progress,   \* the input positions of the futures in the buffer
    fetched,       \* per input position, what get_group_by_variants returned
    results,       \* the Vec of (column_id, variants) collected so far
    order,         \* the input positions of the collected pairs
    bar,           \* the ProgressBar: pos and len
    bounded,       \* position and result of get_all_group_by_variants
    running,       \* per input position, the get_group_by_variants call of
                   \* its future, step by step
    slugs          \* get_dataset_slugs: its inputs, position and result

postVars == <<plan, post>>
pollVars == <<pollPlan, gv>>
ordVars == <<datasets, last_written, tasks, next_outgoing_index, called,
             delivered, finished, ordered, codes>>
bndVars == <<columns_ids, next_item, started, in_progress, fetched, results,
             order, bar, bounded>>
runVars == <<running>>
slugVars == <<slugs>>
vars == <<plan, post, pollPlan, gv, datasets, last_written, tasks,
          next_outgoing_index, called, delivered, finished, ordered, codes,
          columns_ids, next_item, started, in_progress, fetched, results,
          order, bar, bounded, running, slugs>>

\* The value of the variables of an operation that is not running.
Idle == [pc |-> "idle"]

OrdIdle ==
    /\ datasets = Idle
    /\ last_written = Idle
    /\ tasks = Idle
    /\ next_outgoing_index = Idle
    /\ called = Idle
    /\ delivered = Idle
    /\ finished = Idle
    /\ ordered = Idle
    /\ codes = Idle

BndIdle ==
    /\ columns_ids = Idle
    /\ next_item = Idle
    /\ started = Idle
    /\ in_progress = Idle
    /\ fetched = Idle
    /\ results = Idle
    /\ order = Idle
    /\ bar = Idle
    /\ bounded = Idle

RunIdle == running = Idle
SlugsIdle == slugs = Idle

\* ------------------------------------------------------------------------
\* HoneyComb::post
\* ------------------------------------------------------------------------

\* let mut retries = 12;
PostStart ==
    [pc |-> "loop", retries |-> RETRIES, sends |-> 0, sleeps |-> 0,
     throttled |-> 0, result |-> NoResult]

PostReturn(st, r) == [st EXCEPT !.pc = "done", !.result = r]

\* PostLoop with the loop test off by one (retries >= 0).
PostLoopOffByOne(st) ==
    IF st.retries >= 0
    THEN [st EXCEPT !.pc = "send", !.sends = @ + 1]
    ELSE PostReturn(st, Err(ErrRetries))

\* while retries > 0 { ... .send() ...; the loop's exit falls to
\* Err(anyhow!("Too many retries"))
PostLoop(st) ==
    IF st.retries > 0
    THEN [st EXCEPT !.pc = "send", !.sends = @ + 1]
    ELSE PostReturn(st, Err(ErrRetries))

\* PostSendFailed treating a failed send like a rate-limited answer.
PostSendFailedRetry(st) == [st EXCEPT !.pc = "sleep", !.sleeps = @ + 1]

\* .send().await?  with an error
PostSendFailed(st) == PostReturn(st, Err(ErrTransport))

\* if status == TOO_MANY_REQUESTS { sleep(5s).await; ...
PostThrottled(st) ==
    [st EXCEPT !.pc = "sleep", !.sleeps = @ + 1, !.throttled = @ + 1]

\* ... retries -= 1; continue; }
PostWake(st) == [st EXCEPT !.pc = "loop", !.retries = @ - 1]

\* .send().await? and the test of the status
PostSent(st, resp) ==
    IF ~resp.sent THEN PostSendFailed(st)
    ELSE IF resp.status = TOO_MANY_REQUESTS THEN PostThrottled(st)
    ELSE [st EXCEPT !.pc = "text"]

\* PostDecode retrying, after a backoff, a body that does not decode.
PostDecodeRetry(st, resp) ==
    IF resp.body = "good"
    THEN PostReturn(st, Ok(resp.val))
    ELSE [st EXCEPT !.pc = "sleep", !.sleeps = @ + 1]

\* return match serde_json::from_str::<T>(&text) { Ok(t) => Ok(t), Err(e) => Err(..) }
PostDecode(st, resp) ==
    IF resp.body = "good"
    THEN PostReturn(st, Ok(resp.val))
    ELSE PostReturn(st, Err(ErrParse))

\* let text: String = response.text().await?;  and the decoding of the text
PostText(st, resp) ==
    IF resp.body = "err"
    THEN PostReturn(st, Err(ErrTransport))
    ELSE PostDecode(st, resp)

\* One step of post, from one await point to the next; resp is the
\* transport's answer to the request in flight.
PostStep(st, resp) ==
    CASE st.pc = "loop" -> PostLoop(st)
      [] st.pc = "send" -> PostSent(st, resp)
      [] st.pc = "sleep" -> PostWake(st)
      [] st.pc = "text" -> PostText(st, resp)
      [] OTHER -> st

InitPost ==
    /\ plan \in PostPlans
    /\ post = PostStart
    /\ pollPlan = Idle
    /\ gv = Idle
    /\ OrdIdle
    /\ BndIdle
    /\ RunIdle
    /\ SlugsIdle

PostEnter ==
    /\ post.pc = "loop"
    /\ post' = PostLoop(post)
    /\ UNCHANGED <<plan, pollVars, ordVars, bndVars, runVars, slugVars>>

PostRespond ==
    /\ post.pc = "send"
    /\ post' = PostSent(post, PlanResponse(plan, post.sends))
    /\ UNCHANGED <<plan, pollVars, ordVars, bndVars, runVars, slugVars>>

PostSleep ==
    /\ post.pc = "sleep"
    /\ post' = PostWake(post)
    /\ UNCHANGED <<plan, pollVars, ordVars, bndVars, runVars, slugVars>>

PostBody ==
    /\ post.pc = "text"
    /\ post' = PostText(post, PlanResponse(plan, post.sends))
    /\ UNCHANGED <<plan, pollVars, ordVars, bndVars, runVars, slugVars>>

NextPost == PostEnter \/ PostRespond \/ PostSleep \/ PostBody

SpecPost == InitPost /\ [][NextPost]_vars

\* ------------------------------------------------------------------------
\* Properties of post
\* ------------------------------------------------------------------------

Min(a, b) == IF a <= b THEN a ELSE b

Decodable(resp) == resp.sent /\ resp.body = "good"
Undecodable(resp) == resp.sent /\ resp.body = "bad"
TransportFails(resp) == ~resp.sent \/ resp.body = "err"

\* C4: when the transport answers N requests with a rate-limited response and
\* then with a decodable one, post succeeds (with the decoded value) iff
\* N < 12 and fails with "Too many retries" iff N >= 12; it has slept once per
\* rate-limited response it received, and it never sends more than 12 requests.
C4_RetryBudget ==
    /\ post.sends <= RETRIES
    /\ (post.pc = "done" /\ Decodable(plan.final)) =>
          /\ (post.result = Ok(plan.final.val)) <=> (plan.throttles < RETRIES)
          /\ (post.result = Err(ErrRetries)) <=> (plan.throttles >= RETRIES)
          /\ post.throttled = Min(plan.throttles, RETRIES)
          /\ post.sleeps = post.throttled
          /\ post.sends = Min(plan.throttles + 1, RETRIES)

\* post has succeeded on its last attempt, after 11 rate-limited answers.
C4_Witness ==
    /\ post.pc = "done"
    /\ plan.throttles = RETRIES - 1
    /\ post.result.kind = "Ok"
    /\ post.sleeps = RETRIES - 1
    /\ post.sends = RETRIES

\* C5: when the answer that is not rate-limited has a body that does not
\* decode, post ends with the decode error at that answer: it has sent no
\* request and slept no backoff beyond those of the rate-limited answers
\* before it, whatever budget remains.
C5_DecodeErrorIsFinal ==
    (Undecodable(plan.final) /\ plan.throttles < RETRIES) =>
        /\ post.sends <= plan.throttles + 1
        /\ post.sleeps <= plan.throttles
        /\ post.pc = "done" =>
              /\ post.result = Err(ErrParse)
              /\ post.sends = plan.throttles + 1
              /\ post.sleeps = plan.throttles
              /\ post.retries = RETRIES - plan.throttles

\* post has ended with a decode error while budget remained.
C5_Witness ==
    /\ post.pc = "done"
    /\ Undecodable(plan.final)
    /\ post.result = Err(ErrParse)
    /\ post.retries > 1
    /\ post.sends = plan.throttles + 1

\* C10: when the transport fails to send the request or to read the body,
\* post returns the transport's error at that attempt: no retry and no
\* backoff follow it and the remaining budget is left unused, also after
\* earlier rate-limited attempts.
C10_TransportErrorIsFinal ==
    (TransportFails(plan.final) /\ plan.throttles < RETRIES) =>
        /\ post.sends <= plan.throttles + 1
        /\ post.sleeps <= plan.throttles
        /\ post.pc = "done" =>
              /\ post.result = Err(ErrTransport)
              /\ post.sends = plan.throttles + 1
              /\ post.sleeps = plan.throttles
              /\ post.retries = RETRIES - plan.throttles

\* post has ended with a transport error after earlier rate-limited attempts,
\* with budget left.
C10_Witness ==
    /\ post.pc = "done"
    /\ TransportFails(plan.final)
    /\ post.result = Err(ErrTransport)
    /\ post.throttled >= 1
    /\ post.retries > 1


\* ------------------------------------------------------------------------
\* HoneyComb::get_group_by_variants: the polling loop
\* ------------------------------------------------------------------------

\* Variants taking the text of every row, a string or not.
VariantsEveryRow(rows) == [k \in 1..Len(rows) |-> rows[k].s]

RECURSIVE Variants(_)
\* for r in rows { if let Some(column) = r["data"][column_id].as_str()
\*     { results.push(column.to_string()) } }
Variants(rows) ==
    IF rows = <<>> THEN <<>>
    ELSE (IF Head(rows).isStr THEN <<Head(rows).s>> ELSE <<>>) \o Variants(Tail(rows))

\* value["data"]["results"].as_array().unwrap_or(&vec![])
ResultRows(value) == IF value.results.isArray THEN value.results.rows ELSE <<>>

\* let mut results = Vec::new(); let mut polls = 50;
PollStart ==
    [pc |-> "loop", polls |-> POLLS, fetches |-> 0, sleeps |-> 0,
     results |-> <<>>, result |-> NoResultVec]

PollReturn(st, r) == [st EXCEPT !.pc = "done", !.result = r]

\* while polls > 0 { self.get_query_results(..) ...; the loop's exit falls to
\* Ok(results)
PollLoop(st) ==
    IF st.polls > 0
    THEN [st EXCEPT !.pc = "send", !.fetches = @ + 1]
    ELSE PollReturn(st, Ok(st.results))

\* PollSent taking a failed send as "not complete yet".
PollSentRetry(st, resp) ==
    IF resp.sent
    THEN [st EXCEPT !.pc = "text"]
    ELSE [st EXCEPT !.pc = "sleep", !.sleeps = @ + 1]

\* get: .send().await?
PollSent(st, resp) ==
    IF resp.sent
    THEN [st EXCEPT !.pc = "text"]
    ELSE PollReturn(st, ErrVec(ErrTransport))

\* PollComplete without the break: the loop goes on to its sleep.
PollCompleteNoBreak(st, value) ==
    [st EXCEPT !.results = @ \o Variants(ResultRows(value)),
               !.pc = "sleep", !.sleeps = @ + 1]

\* the body of  if value["complete"] ... { for r in ... ; break; }  and the
\* Ok(results) the break leads to
PollComplete(st, value) ==
    LET pushed == [st EXCEPT !.results = @ \o Variants(ResultRows(value))]
    IN PollReturn(pushed, Ok(pushed.results))

\* if value["complete"].as_bool().unwrap() { ... } sleep(100ms).await;
PollStatus(st, value) ==
    IF value.complete = "none" THEN [st EXCEPT !.pc = "panic"]
    ELSE IF value.complete = "true" THEN PollComplete(st, value)
    ELSE [st EXCEPT !.pc = "sleep", !.sleeps = @ + 1]

\* get: response.text().await? and serde_json::from_str; then the test of
\* the status
PollText(st, resp) ==
    IF resp.body = "err" THEN PollReturn(st, ErrVec(ErrTransport))
    ELSE IF resp.body = "bad" THEN PollReturn(st, ErrVec(ErrParse))
    ELSE PollStatus(st, resp.val)

\* polls -= 1;
PollWake(st) == [st EXCEPT !.pc = "loop", !.polls = @ - 1]

InitPoll ==
    /\ pollPlan \in PollPlans
    /\ gv = PollStart
    /\ plan = Idle
    /\ post = Idle
    /\ OrdIdle
    /\ BndIdle
    /\ RunIdle
    /\ SlugsIdle

PollEnter ==
    /\ gv.pc = "loop"
    /\ gv' = PollLoop(gv)
    /\ UNCHANGED <<pollPlan, postVars, ordVars, bndVars, runVars, slugVars>>

PollRespond ==
    /\ gv.pc = "send"
    /\ gv' = PollSent(gv, PollPlanResponse(pollPlan, gv.fetches))
    /\ UNCHANGED <<pollPlan, postVars, ordVars, bndVars, runVars, slugVars>>

PollBody ==
    /\ gv.pc = "text"
    /\ gv' = PollText(gv, PollPlanResponse(pollPlan, gv.fetches))
    /\ UNCHANGED <<pollPlan, postVars, ordVars, bndVars, runVars, slugVars>>

PollSleep ==
    /\ gv.pc = "sleep"
    /\ gv' = PollWake(gv)
    /\ UNCHANGED <<pollPlan, postVars, ordVars, bndVars, runVars, slugVars>>

NextPoll == PollEnter \/ PollRespond \/ PollBody \/ PollSleep

SpecPoll == InitPoll /\ [][NextPoll]_vars

\* ------------------------------------------------------------------------
\* Properties of the polling loop
\* ------------------------------------------------------------------------

ReportsComplete(resp) == resp.sent /\ resp.body = "good" /\ resp.val.complete = "true"

\* C6: if the job first reports complete on its K-th status fetch,
\* 1 <= K <= 50, the loop makes exactly K status fetches and returns the
\* payload of that status; if the job does not report complete in 50 status
\* fetches, the loop makes exactly 50 and returns Ok with an empty payload.
C6_PollBudget ==
    /\ gv.fetches <= POLLS
    /\ (ReportsComplete(pollPlan.final) /\ pollPlan.at <= POLLS) =>
          /\ gv.fetches <= pollPlan.at
          /\ gv.pc # "panic"
          /\ gv.pc = "done" =>
                /\ gv.fetches = pollPlan.at
                /\ gv.sleeps = pollPlan.at - 1
                /\ gv.result = Ok(Variants(ResultRows(pollPlan.final.val)))
    /\ pollPlan.at > POLLS =>
          /\ gv.pc # "panic"
          /\ gv.pc = "done" =>
                /\ gv.fetches = POLLS
                /\ gv.sleeps = POLLS
                /\ gv.result = Ok(<<>>)

\* The loop has returned a payload of two values from the 50th status fetch.
C6_Witness ==
    /\ gv.pc = "done"
    /\ pollPlan.at = POLLS
    /\ gv.fetches = POLLS
    /\ gv.result.kind = "Ok"
    /\ Len(gv.result.val) = 2

\* The positions of the rows that have a string for the column
StringRows(rows) == {j \in 1..Len(rows) : rows[j].isStr}

\* C11: once a status reports complete, the call returns Ok whatever the
\* payload: no list when the results field is absent or is not an array, and
\* otherwise exactly the strings of the rows that have one for the column, in
\* row order (rows without a string are skipped).
C11_PayloadNeverFatal ==
    (ReportsComplete(pollPlan.final) /\ pollPlan.at <= POLLS) =>
        /\ gv.pc # "panic"
        /\ gv.pc = "done" =>
              LET data == pollPlan.final.val.results
                  strs == StringRows(data.rows)
              IN /\ gv.result.kind = "Ok"
                 /\ ~data.isArray => gv.result.val = <<>>
                 /\ data.isArray =>
                       /\ Len(gv.result.val) = Cardinality(strs)
                       /\ \A j \in strs :
                             gv.result.val[Cardinality({i \in strs : i <= j})] = data.rows[j].s

\* The call has returned the one string of a payload whose first row has no
\* string for the column.
C11_Witness ==
    /\ gv.pc = "done"
    /\ pollPlan.at = 2
    /\ pollPlan.final.val.results = Array(<<OtherRow, StrRow("y")>>)
    /\ pollPlan.final.val.complete = "true"
    /\ gv.result = Ok(<<"y">>)

FetchFails(resp) == ~resp.sent \/ resp.body \in {"err", "bad"}

\* C19: a status fetch that fails (the transport fails to send or to read the
\* body, or the body is not JSON) ends the polling loop at that fetch: the
\* call returns that error, and no status fetch and no poll sleep follow it,
\* whatever poll budget remains.
C19_FailedPollIsFinal ==
    (FetchFails(pollPlan.final) /\ pollPlan.at <= POLLS) =>
        /\ gv.fetches <= pollPlan.at
        /\ gv.sleeps <= pollPlan.at - 1
        /\ gv.pc # "panic"
        /\ gv.pc = "done" =>
              /\ gv.result =
                    ErrVec(IF pollPlan.final.sent /\ pollPlan.final.body = "bad"
                           THEN ErrParse ELSE ErrTransport)
              /\ gv.fetches = pollPlan.at
              /\ gv.sleeps = pollPlan.at - 1
              /\ gv.polls = POLLS - (pollPlan.at - 1)

\* The loop has ended with a transport error at its third status fetch, with
\* 48 polls of its budget left.
C19_Witness ==
    /\ gv.pc = "done"
    /\ pollPlan.at = 3
    /\ ~pollPlan.final.sent
    /\ gv.result = ErrVec(ErrTransport)
    /\ gv.fetches = 3
    /\ gv.polls = POLLS - 2

\* ------------------------------------------------------------------------
\* HoneyComb::process_datasets_columns
\* ------------------------------------------------------------------------

DatasetNames == {"a", "b"}

\* A Column, by its id and (now - c.last_written).num_days()
Col(id, age) == [id |-> id, age |-> age]

\* The bodies the transport may give to GET columns/<dataset> that decode as
\* a Vec<Column>
ColumnLists ==
    {<<>>, <<Col("c1", 3)>>, <<Col("c1", 0), Col("c2", 3), Col("c3", 0)>>}

LastWrittenDays == {1, 7}

SeqsUpTo(S, n) == UNION {[1..k -> S] : k \in 0..n}

\* columns.iter().filter(|&c| (now - c.last_written).num_days() < last_written)
\*     .cloned().collect()
RECURSIVE Kept(_, _)
Kept(columns, lw) ==
    IF columns = <<>> THEN <<>>
    ELSE (IF Head(columns).age < lw THEN <<Head(columns)>> ELSE <<>>)
         \o Kept(Tail(columns), lw)

\* TaskOutput with an Err arm that yields a placeholder column.
TaskOutputPlaceholder(dataset, columns, lw) ==
    IF columns.kind = "Ok"
    THEN <<dataset, Kept(columns.val, lw)>>
    ELSE <<dataset, <<Col("", 0)>>>>

\* match columns { Ok(columns) => (dataset_clone, <filtered>),
\*                 Err(e) => { eprintln!(..); (dataset_clone, vec![]) } }
TaskOutput(dataset, columns, lw) ==
    IF columns.kind = "Ok"
    THEN <<dataset, Kept(columns.val, lw)>>
    ELSE <<dataset, <<>>>>

\* tasks.push_back(async move { ... }): a future that has not been polled
\*   sends   : the requests the future's get has sent
\*   limited : the response its get has received is a rate-limited one
NewTask(dataset) ==
    [dataset |-> dataset, pc |-> "new", sends |-> 0, limited |-> FALSE,
     columns |-> NoResultVec, output |-> <<>>]

\* The answers of the transport to the send() of a GET, with the status codes cs
GetAnswers(cs) == {[sent |-> FALSE, status |-> 0]} \cup [sent : {TRUE}, status : cs]

\* The first poll of the future: get builds its request and sends it
TaskStart(t) == [t EXCEPT !.pc = "send", !.sends = @ + 1]

\* The future returns: list_all_columns has given r
TaskReturn(t, r, lw) ==
    [t EXCEPT !.pc = "ready", !.columns = r, !.output = TaskOutput(t.dataset, r, lw)]

\* TaskSent with a get that sends its request once more after a rate-limited
\* response, as post does.
TaskSentRetry(t, resp, lw) ==
    IF ~resp.sent THEN TaskReturn(t, ErrVec(ErrTransport), lw)
    ELSE IF resp.status = TOO_MANY_REQUESTS /\ t.sends < 2
    THEN [t EXCEPT !.sends = @ + 1]
    ELSE [t EXCEPT !.pc = "text", !.limited = (resp.status = TOO_MANY_REQUESTS)]

\* get: .send().await? and response.status()
TaskSent(t, resp, lw) ==
    IF resp.sent
    THEN [t EXCEPT !.pc = "text", !.limited = (resp.status = TOO_MANY_REQUESTS)]
    ELSE TaskReturn(t, ErrVec(ErrTransport), lw)

\* get: response.text().await? and serde_json::from_str::<Vec<Column>>
TaskText(t, body, val, lw) ==
    IF body = "err" THEN TaskReturn(t, ErrVec(ErrTransport), lw)
    ELSE IF body = "bad" THEN TaskReturn(t, ErrVec(ErrParse), lw)
    ELSE TaskReturn(t, Ok(val), lw)

Pushed == Len(tasks) = Len(datasets)

\* StartOrderOk with futures that are awaited one after the other: a future
\* is first polled once those pushed before it have finished.
StartOrderSequential(i) == \A j \in 1..(i - 1) : tasks[j].pc = "ready"

\* FuturesOrdered::poll_next polls the futures that have not been polled yet
\* in the order of their push_back
StartOrderOk(i) == \A j \in 1..(i - 1) : tasks[j].pc # "new"
AllStarted == Pushed /\ \A i \in 1..Len(tasks) : tasks[i].pc # "new"

\* YieldableNow as a FuturesUnordered would have it: any finished future.
YieldableAnyOrder ==
    {i \in 1..Len(tasks) : tasks[i].pc = "ready" /\ ~(\E k \in 1..Len(delivered) : delivered[k] = i)}

\* FuturesOrdered::poll_next: the output it yields is the one whose index is
\* next_outgoing_index, once that future has finished
YieldableNow ==
    {i \in 1..Len(tasks) : i = next_outgoing_index /\ tasks[i].pc = "ready"}

\* The call process_datasets_columns(last_written, &datasets, f) of at most n
\* datasets, with a transport whose responses to a GET have a status in cs
InitOrderedWith(n, cs) ==
    /\ datasets \in SeqsUpTo(DatasetNames, n)
    /\ last_written \in LastWrittenDays
    /\ tasks = <<>>
    /\ next_outgoing_index = 1
    /\ called = <<>>
    /\ delivered = <<>>
    /\ finished = <<>>
    /\ ordered = [pc |-> "running", result |-> "None", first_poll |-> 0,
                  at_once |-> {}]
    /\ codes = cs
    /\ plan = Idle
    /\ post = Idle
    /\ pollPlan = Idle
    /\ gv = Idle
    /\ BndIdle
    /\ RunIdle
    /\ SlugsIdle

InitOrdered == InitOrderedWith(MaxDatasets, {200})

\* The same call with a transport that may also answer a GET with a
\* rate-limited response
InitColumns == InitOrderedWith(MaxGetDatasets, {200, TOO_MANY_REQUESTS})

\* for dataset in datasets { ... tasks.push_back(async move { ... }); }
OrdPush ==
    /\ ordered.pc = "running"
    /\ Len(tasks) < Len(datasets)
    /\ tasks' = Append(tasks, NewTask(datasets[Len(tasks) + 1]))
    /\ UNCHANGED <<codes, datasets, last_written, next_outgoing_index, called,
                   delivered, finished, ordered, postVars, pollVars, bndVars,
                   runVars, slugVars>>

\* The first poll of a future, in tasks.next().await: the futures are polled
\* in the order they were pushed, and each calls send() for its request.
\* poll_next returns as soon as it has the output of next_outgoing_index, so
\* no future is first polled while that output waits for its call of f.
OrdStart(i) ==
    /\ ordered.pc = "running"
    /\ Pushed
    /\ YieldableNow = {}
    /\ tasks[i].pc = "new"
    /\ StartOrderOk(i)
    /\ tasks' = [tasks EXCEPT ![i] = TaskStart(@)]
    /\ ordered' = [ordered EXCEPT !.first_poll = i]
    /\ UNCHANGED <<codes, datasets, last_written, next_outgoing_index, called,
                   delivered, finished, postVars, pollVars, bndVars,
                   runVars, slugVars>>

Finish(i) == IF tasks'[i].pc = "ready" THEN Append(finished, i) ELSE finished

\* The future at position i is in its first poll: it has called send() and
\* no other future has been polled since
InFirstPoll(i) == ordered.first_poll = i

\* When send() of the future at position i gives resp. In the first poll of
\* the future (first) it gives only an error, one met before anything goes
\* to the network (a request that fails to build); in a later poll, which
\* FuturesUnordered gives a woken future only after the first poll of every
\* future pushed, it gives the transport's answer.
SendGives(i, resp, first) ==
    IF first THEN InFirstPoll(i) /\ ~resp.sent ELSE AllStarted

\* The poll in which a future has taken a step is over
Polled(o, i, first) ==
    [o EXCEPT !.first_poll = 0,
              !.at_once = IF first THEN @ \cup {i} ELSE @]

\* send() of a future gives its answer: the transport's, or the error of a
\* request that fails to build.
OrdSent(i) ==
    /\ ordered.pc = "running"
    /\ YieldableNow = {}
    /\ tasks[i].pc = "send"
    /\ \E resp \in GetAnswers(codes), first \in BOOLEAN :
          /\ SendGives(i, resp, first)
          /\ tasks' = [tasks EXCEPT ![i] = TaskSent(@, resp, last_written)]
          /\ ordered' = Polled(ordered, i, first)
    /\ finished' = Finish(i)
    /\ UNCHANGED <<codes, datasets, last_written, next_outgoing_index, called,
                   delivered, postVars, pollVars, bndVars,
                   runVars, slugVars>>

\* A future is polled again after the transport has answered its text().
OrdText(i) ==
    /\ ordered.pc = "running"
    /\ AllStarted
    /\ YieldableNow = {}
    /\ tasks[i].pc = "text"
    /\ \/ \E body \in {"err", "bad"} :
             tasks' = [tasks EXCEPT ![i] = TaskText(@, body, <<>>, last_written)]
       \/ \E val \in ColumnLists :
             tasks' = [tasks EXCEPT ![i] = TaskText(@, "good", val, last_written)]
    /\ finished' = Finish(i)
    /\ ordered' = Polled(ordered, i, FALSE)
    /\ UNCHANGED <<codes, datasets, last_written, next_outgoing_index, called,
                   delivered, postVars, pollVars, bndVars,
                   runVars, slugVars>>

\* while let Some((dataset, columns)) = tasks.next().await { f(dataset, columns); }
OrdDeliver(i) ==
    /\ ordered.pc = "running"
    /\ i \in YieldableNow
    /\ called' = Append(called, tasks[i].output)
    /\ delivered' = Append(delivered, i)
    /\ next_outgoing_index' = next_outgoing_index + 1
    /\ ordered' = [ordered EXCEPT !.first_poll = 0]
    /\ UNCHANGED <<codes, datasets, last_written, tasks, finished,
                   postVars, pollVars, bndVars,
                   runVars, slugVars>>

\* tasks.next() gives None: every future's output has been yielded. Ok(())
OrdReturn ==
    /\ ordered.pc = "running"
    /\ Pushed
    /\ Len(delivered) = Len(tasks)
    /\ ordered' = [ordered EXCEPT !.pc = "done", !.result = "Ok", !.first_poll = 0]
    /\ UNCHANGED <<codes, datasets, last_written, tasks, next_outgoing_index, called,
                   delivered, finished, postVars, pollVars, bndVars,
                   runVars, slugVars>>

NextOrdered ==
    \/ OrdPush
    \/ \E i \in 1..Len(tasks) : OrdStart(i)
    \/ \E i \in 1..Len(tasks) : OrdSent(i)
    \/ \E i \in 1..Len(tasks) : OrdText(i)
    \/ \E i \in 1..Len(tasks) : OrdDeliver(i)
    \/ OrdReturn

SpecOrdered == InitOrdered /\ [][NextOrdered]_vars

SpecColumns == InitColumns /\ [][NextOrdered]_vars

\* ------------------------------------------------------------------------
\* Properties of process_datasets_columns
\* ------------------------------------------------------------------------

\* C1: f is called at most once per input position and, when the operation
\* returns, exactly once; the i-th call is the call for position i and carries
\* the i-th dataset with the columns fetched for it (those within the age
\* limit, or none when the fetch failed), whatever the order in which the
\* fetches finish.
C1_OrderedDelivery ==
    /\ Len(called) = Len(delivered)
    /\ Len(called) <= Len(datasets)
    /\ \A k \in 1..Len(called) :
          /\ delivered[k] = k
          /\ tasks[k].pc = "ready"
          /\ called[k][1] = datasets[k]
          /\ called[k][2] =
                (IF tasks[k].columns.kind = "Ok"
                 THEN Kept(tasks[k].columns.val, last_written)
                 ELSE <<>>)
    /\ ordered.pc = "done" => Len(called) = Len(datasets)

\* The operation has returned after the fetch of the last of three datasets
\* finished first and the fetch of the first one last, with columns kept for
\* the last dataset.
C1_Witness ==
    /\ ordered.pc = "done"
    /\ Len(datasets) = 3
    /\ finished = <<3, 2, 1>>
    /\ delivered = <<1, 2, 3>>
    /\ Len(called[3][2]) = 2

\* C8: when the column fetch of the dataset at position i returns an error,
\* f is still called for position i, as the i-th call, with that dataset and
\* no columns; the failure ends nothing: the other fetches go on, every other
\* position is delivered with its own result, and the operation returns Ok.
C8_FailedFetchDelivered ==
    /\ \A k \in 1..Len(called) :
          tasks[k].columns.kind = "Err" => called[k] = <<datasets[k], <<>>>>
    /\ \A i \in 1..Len(tasks) :
          tasks[i].columns.kind = "Err" =>
              /\ tasks[i].pc = "ready"
              /\ ordered.pc = "done" =>
                    /\ i <= Len(called)
                    /\ delivered[i] = i
    /\ ordered.pc = "done" =>
          /\ ordered.result = "Ok"
          /\ \A i \in 1..Len(datasets) :
                /\ i <= Len(called)
                /\ called[i][1] = datasets[i]
                /\ tasks[i].columns.kind = "Ok" =>
                      called[i][2] = Kept(tasks[i].columns.val, last_written)

\* The operation has returned Ok after the fetch of the second of three
\* datasets failed, with columns delivered for the first and the third.
C8_Witness ==
    /\ ordered.pc = "done"
    /\ ordered.result = "Ok"
    /\ Len(datasets) = 3
    /\ tasks[2].columns.kind = "Err"
    /\ called[2] = <<datasets[2], <<>>>>
    /\ Len(called[1][2]) > 0
    /\ Len(called[3][2]) > 0

InFlightFetches == {i \in 1..Len(tasks) : tasks[i].pc \in {"send", "text"}}

\* The fetches that ended in their first poll, with the error of send()
EndedAtOnce == ordered.at_once

\* The fetches that have been started
StartedFetches == {i \in 1..Len(tasks) : tasks[i].pc # "new"}

RateLimited(i) == tasks[i].limited

\* C20: the GET path never retries: a fetch that has been started has sent
\* exactly one request, whatever the status of the response, so that the
\* operation sends at most one request per input dataset and, once it has
\* returned, exactly one; after a rate-limited response the get goes on to
\* the body and returns what its decoding gives, as after any other response.
C20_GetNeverRetries ==
    /\ \A i \in 1..Len(tasks) :
          /\ tasks[i].sends = (IF tasks[i].pc = "new" THEN 0 ELSE 1)
          /\ RateLimited(i) => tasks[i].pc \in {"text", "ready"}
          /\ (RateLimited(i) /\ tasks[i].pc = "ready") =>
                \/ tasks[i].columns \in {Ok(val) : val \in ColumnLists}
                \/ tasks[i].columns \in {ErrVec(ErrParse), ErrVec(ErrTransport)}
    /\ ordered.pc = "done" =>
          /\ Len(tasks) = Len(datasets)
          /\ \A i \in 1..Len(tasks) : tasks[i].sends = 1

\* The operation has returned after the transport answered both fetches with
\* a rate-limited response, one with a body that decodes to columns and one
\* with a body that does not decode; each fetch sent one request.
C20_Witness ==
    /\ ordered.pc = "done"
    /\ Len(datasets) = 2
    /\ RateLimited(1) /\ RateLimited(2)
    /\ tasks[1].columns.kind = "Ok" /\ Len(tasks[1].columns.val) > 0
    /\ tasks[2].columns = ErrVec(ErrParse)
    /\ tasks[1].sends = 1 /\ tasks[2].sends = 1

\* ------------------------------------------------------------------------
\* One whole call of post, get_query_url and get_group_by_variants, as a
\* function of the transport's answers
\* ------------------------------------------------------------------------

\* n steps of post under the transport p (a call that has returned stays as
\* it is)
RECURSIVE PostIterate(_, _, _)
PostIterate(st, p, n) ==
    IF st.pc = "done" \/ n = 0 THEN st
    ELSE IF n = 1 THEN PostStep(st, PlanResponse(p, st.sends))
    ELSE PostIterate(PostIterate(st, p, n \div 2), p, n - (n \div 2))

\* self.post(request, json).await: each of at most RETRIES attempts takes at
\* most three steps, and the loop's exit one
PostCall(p) == PostIterate(PostStart, p, 3 * RETRIES + 1).result

\* let query: Query = self.post(..).await?;
\* let query_result: QueryResult = self.post(..).await?;
\* Ok(query_result.links.query_url)
GetQueryUrl(p1, p2) ==
    LET query == PostCall(p1)
    IN IF query.kind = "Err" THEN query ELSE PostCall(p2)

\* One step of the polling loop, from one await point to the next
PollStep(st, resp) ==
    CASE st.pc = "loop" -> PollLoop(st)
      [] st.pc = "send" -> PollSent(st, resp)
      [] st.pc = "text" -> PollText(st, resp)
      [] st.pc = "sleep" -> PollWake(st)
      [] OTHER -> st

\* n steps of the polling loop under the transport p (a loop that has ended
\* stays as it is)
RECURSIVE PollIterate(_, _, _)
PollIterate(st, p, n) ==
    IF st.pc \in {"done", "panic"} \/ n = 0 THEN st
    ELSE IF n = 1 THEN PollStep(st, PollPlanResponse(p, st.fetches))
    ELSE PollIterate(PollIterate(st, p, n \div 2), p, n - (n \div 2))

\* self.get_group_by_variants(dataset_slug, &column_id).await: the Result it
\* returns, or a panic
GetGroupByVariants(tp) ==
    LET url == GetQueryUrl(tp.post1, tp.post2)
        \* each of at most POLLS polls takes four steps, and the loop's exit one
        end == PollIterate(PollStart, tp.poll, 4 * POLLS + 1)
    IN IF url.kind = "Err" THEN [panic |-> FALSE, result |-> ErrVec(url.err)]
       ELSE [panic |-> end.pc = "panic", result |-> end.result]

\* The transports a fetch of the bounded aggregator may meet
GoodPost == [throttles |-> 0, final |-> [sent |-> TRUE, status |-> 200, body |-> "good", val |-> "q1"]]
FetchPostPlans ==
    {GoodPost,
     [GoodPost EXCEPT !.throttles = RETRIES - 1],
     [GoodPost EXCEPT !.throttles = RETRIES],
     [throttles |-> 1, final |-> SendFailure],
     [throttles |-> 0, final |-> [sent |-> TRUE, status |-> 500, body |-> "bad", val |-> ""]]}
FetchPollPlans ==
    {[at |-> 1, final |-> StatusAnswer(200, Status("true", Array(<<StrRow("x")>>)))],
     [at |-> 3, final |-> StatusAnswer(200, Status("true", Array(<<OtherRow, StrRow("y")>>)))],
     [at |-> POLLS + 1, final |-> StatusAnswer(200, NotComplete)],
     [at |-> 2, final |-> StatusSendFailure],
     [at |-> 1, final |-> [sent |-> TRUE, status |-> 200, body |-> "bad", val |-> NotComplete]],
     [at |-> 2, final |-> StatusAnswer(200, Status("none", NoArray))]}
FetchPlans == [post1 : FetchPostPlans, post2 : FetchPostPlans, poll : FetchPollPlans]

\* What get_group_by_variants may do under those transports
FetchOutcomes == {GetGroupByVariants(tp) : tp \in FetchPlans}

\* ------------------------------------------------------------------------
\* HoneyComb::get_all_group_by_variants
\* ------------------------------------------------------------------------

ColumnIds == <<"c1", "c2", "c3", "c4", "c5", "c6">>

\* VariantsPair with an Err arm that yields the error's text as a variant.
VariantsPairErrText(column_id, variants) ==
    IF variants.kind = "Ok"
    THEN <<column_id, variants.val>>
    ELSE <<column_id, <<variants.err>>>>

\* match variants { Ok(variants) => (column_id, variants),
\*                  Err(e) => { eprintln!(..); (column_id, vec![]) } }
VariantsPair(column_id, variants) ==
    IF variants.kind = "Ok"
    THEN <<column_id, variants.val>>
    ELSE <<column_id, <<>>>>

\* HasRoom without the cap.
HasRoomUnbounded == TRUE

\* BufferUnordered::poll_next: while self.in_progress_queue.len() < self.max
HasRoom == Cardinality(in_progress) < BUFFER

\* BufferFilled for a buffer that is polled before it is refilled.
BufferFilledEager == TRUE

\* BufferUnordered::poll_next fills the buffer from the stream before it
\* polls the futures in it: a future is polled again only once the buffer is
\* full or the stream has ended
BufferFilled == ~HasRoom \/ next_item > Len(columns_ids)

\* BarInc that leaves the position where it is.
BarIncNone(b) == b

\* bar.inc(1);
BarInc(b) == [b EXCEPT !.pos = @ + 1]

\* Collected dropping the pairs that have no variants.
CollectedNonEmpty(result) == IF result[2] = <<>> THEN results ELSE Append(results, result)

\* results.push(result);
Collected(result) == Append(results, result)

\* The inputs: up to MaxColumns distinct column ids, or the same with the
\* first id given twice
ColumnInputs ==
    {SubSeq(ColumnIds, 1, n) : n \in 0..MaxColumns}
    \cup {<<ColumnIds[1]>> \o SubSeq(ColumnIds, 1, n - 1) : n \in 2..MaxColumns}

InitBounded ==
    /\ columns_ids \in ColumnInputs
    /\ next_item = 1
    /\ started = <<>>
    /\ in_progress = {}
    /\ fetched = [i \in 1..Len(columns_ids) |-> NoResultVec]
    /\ results = <<>>
    /\ order = <<>>
    /\ bar = [pos |-> 0, len |-> Len(columns_ids)]
    /\ bounded = [pc |-> "running", result |-> "None"]
    /\ plan = Idle
    /\ post = Idle
    /\ pollPlan = Idle
    /\ gv = Idle
    /\ OrdIdle
    /\ RunIdle
    /\ SlugsIdle

\* BufferUnordered::poll_next takes the next column id from the stream and
\* pushes its future, while the buffer has room; the future is polled and
\* sends its first request.
BndStart ==
    /\ bounded.pc = "running"
    /\ HasRoom
    /\ next_item <= Len(columns_ids)
    /\ in_progress' = in_progress \cup {next_item}
    /\ next_item' = next_item + 1
    /\ started' = Append(started, next_item)
    /\ UNCHANGED <<columns_ids, fetched, results, order, bar, bounded,
                   postVars, pollVars, ordVars,
                   runVars, slugVars>>

\* A future of the buffer returns; tasks.next() yields its pair:
\* bar.inc(1); results.push(result);
BndComplete(i) ==
    /\ bounded.pc = "running"
    /\ BufferFilled
    /\ i \in in_progress
    /\ \E out \in FetchOutcomes :
          /\ ~out.panic
          /\ fetched' = [fetched EXCEPT ![i] = out.result]
          /\ results' = Collected(VariantsPair(columns_ids[i], out.result))
    /\ in_progress' = in_progress \ {i}
    /\ order' = Append(order, i)
    /\ bar' = BarInc(bar)
    /\ UNCHANGED <<columns_ids, next_item, started, bounded, postVars, pollVars, ordVars,
                   runVars, slugVars>>

\* A future of the buffer panics (the unwrap of value["complete"].as_bool()):
\* the panic unwinds through tasks.next().await and get_all_group_by_variants.
BndPanic(i) ==
    /\ bounded.pc = "running"
    /\ BufferFilled
    /\ i \in in_progress
    /\ \E out \in FetchOutcomes : out.panic
    /\ bounded' = [pc |-> "panic", result |-> "None"]
    /\ UNCHANGED <<columns_ids, next_item, started, in_progress, fetched,
                   results, order, bar, postVars, pollVars, ordVars,
                   runVars, slugVars>>

\* tasks.next() gives None; bar.finish_and_clear(); Ok(results)
BndReturn ==
    /\ bounded.pc = "running"
    /\ next_item > Len(columns_ids)
    /\ in_progress = {}
    /\ bounded' = [pc |-> "done", result |-> "Ok"]
    /\ UNCHANGED <<columns_ids, next_item, started, in_progress, fetched,
                   results, order, bar, postVars, pollVars, ordVars,
                   runVars, slugVars>>

NextBounded ==
    \/ BndStart
    \/ \E i \in in_progress : BndComplete(i)
    \/ \E i \in in_progress : BndPanic(i)
    \/ BndReturn

SpecBounded == InitBounded /\ [][NextBounded]_vars

\* ------------------------------------------------------------------------
\* Properties of get_all_group_by_variants
\* ------------------------------------------------------------------------

Positions == 1..Len(columns_ids)
CollectedPositions == {order[k] : k \in 1..Len(order)}

\* The fetches that have started and have not completed
InFlight == {i \in Positions : i < next_item /\ i \notin CollectedPositions}

\* What the pair of a fetch that returned r carries
PairVariants(r) == IF r.kind = "Ok" THEN r.val ELSE <<>>

\* C2: at most 3 per-column fetches have started and not yet completed.
C2_AtMostThreeInFlight == Cardinality(InFlight) <= BUFFER

\* Three fetches are in flight and a fourth column is waiting to be started.
C2_Witness ==
    /\ bounded.pc = "running"
    /\ Cardinality(InFlight) = BUFFER
    /\ InFlight = in_progress
    /\ next_item = BUFFER + 1
    /\ next_item <= Len(columns_ids)

\* C3: the pairs returned are one per input column id: every input position
\* has its pair, none has two, there is no other pair, and each pair carries
\* its own column id with what the fetch for that column gave.
C3_ExactlyTheInputItems ==
    /\ Len(results) = Len(order)
    /\ \A k \in 1..Len(order) :
          /\ order[k] \in Positions
          /\ \A l \in 1..Len(order) : order[l] = order[k] => l = k
          /\ fetched[order[k]].kind # "None"
          /\ results[k] = <<columns_ids[order[k]], PairVariants(fetched[order[k]])>>
    /\ bounded.pc = "done" =>
          /\ Len(results) = Len(columns_ids)
          /\ CollectedPositions = Positions

\* Four column ids have been returned in another order than the input's,
\* the third first, with variants for it.
C3_Witness ==
    /\ bounded.pc = "done"
    /\ Len(columns_ids) = 4
    /\ Len(results) = 4
    /\ order[1] = 3
    /\ order[4] = 1
    /\ results[1] = <<"c3", <<"y">>>>

\* C9: when the fetch for a column returns an error, the pair (that column,
\* no variants) is collected; the aggregation goes on, and when it returns
\* it returns Ok with the pairs of all the columns.
C9_FailedFetchCollected ==
    /\ \A i \in Positions :
          fetched[i].kind = "Err" =>
              \E k \in 1..Len(results) :
                  /\ order[k] = i
                  /\ results[k] = <<columns_ids[i], <<>>>>
    /\ bounded.pc = "done" =>
          /\ bounded.result = "Ok"
          /\ \A i \in Positions :
                /\ fetched[i].kind \in {"Ok", "Err"}
                /\ \E k \in 1..Len(results) : order[k] = i /\ results[k][1] = columns_ids[i]

\* The aggregation has returned after one fetch ran out of retries, one met a
\* transport error and one an undecodable body, with the variants of a
\* fourth column collected after them.
C9_Witness ==
    /\ bounded.pc = "done"
    /\ Len(columns_ids) = 4
    /\ fetched[1] = ErrVec(ErrRetries)
    /\ fetched[2] = ErrVec(ErrTransport)
    /\ fetched[3] = ErrVec(ErrParse)
    /\ order[4] = 4
    /\ results[4] = <<"c4", <<"x">>>>

\* C7: the aggregators end only by returning Ok with one outcome per input
\* item, whatever the transport does: no behaviour of the transport for one
\* item makes get_all_group_by_variants fail, abort or lose the outcomes of
\* the other items.
C7_AlwaysReturnsAll ==
    /\ bounded.pc \in {"running", "done"}
    /\ bounded.pc = "done" =>
          /\ bounded.result = "Ok"
          /\ Len(results) = Len(columns_ids)

Unstarted == {i \in Positions : i >= next_item}

\* C13: the items are started in input order, each once; a fetch completes
\* (its pair is collected) only when 3 fetches are in flight or no item is
\* left to start, so the aggregator never waits for a completion with room
\* in the buffer and an item to start; and while the aggregation runs with
\* room and an item left, the next step is the start of that item.
C13_WorkConserving ==
    /\ [](/\ started = [k \in 1..(next_item - 1) |-> k]
          /\ in_progress = InFlight
          /\ (bounded.pc = "running" /\ Unstarted # {} /\ Cardinality(InFlight) < BUFFER)
                => ENABLED BndStart)
    /\ [][order' # order =>
            (Cardinality(InFlight) = BUFFER \/ Unstarted = {})]_vars

\* The fourth column has been started after the first completion: three
\* fetches are in flight again.
C13_Witness ==
    /\ Len(order) = 1
    /\ started = <<1, 2, 3, 4>>
    /\ Cardinality(InFlight) = BUFFER

\* C17: the progress bar has the number of input items as its length and the
\* number of completed fetches, failed or not, as its position: it starts at
\* 0, moves by one with each pair collected and never otherwise, never passes
\* its length, and is at its length, the number of pairs, when the
\* aggregation returns.
C17_Progress ==
    /\ [](/\ bar.len = Len(columns_ids)
          /\ bar.pos = Cardinality({i \in Positions : fetched[i].kind # "None"})
          /\ bar.pos = Len(results)
          /\ bar.pos <= bar.len
          /\ bounded.pc = "done" => bar.pos = bar.len)
    /\ [][/\ bar'.len = bar.len
           /\ bar'.pos >= bar.pos
           /\ bar'.pos = bar.pos + (Len(results') - Len(results))
           /\ bar'.pos <= bar.pos + 1]_vars

\* The bar stands at 2 of 4 after one failed and one successful fetch.
C17_Witness ==
    /\ bar = [pos |-> 2, len |-> 4]
    /\ \E i, j \in Positions : fetched[i].kind = "Err" /\ fetched[j].kind = "Ok"
    /\ bounded.pc = "running"

\* ------------------------------------------------------------------------
\* get_dataset_slugs
\*   slugs.last_written : the input age limit, in days
\*   slugs.include      : the input include_datasets, an Option<HashSet>
\*   slugs.listed       : the Vec<Dataset> that list_all_datasets decoded
\*   slugs.result       : the Result the call has returned
\* A Dataset is its slug and its last_written_at, an Option of a time, kept
\* as the whole days from that time to now.
\* ------------------------------------------------------------------------

SlugOrder == <<"a", "b", "c">>
SlugNames == {SlugOrder[k] : k \in 1..Len(SlugOrder)}

\* The place of a slug in the order of String
Rank(s) == CHOOSE k \in 1..Len(SlugOrder) : SlugOrder[k] = s

NeverWritten == [some |-> FALSE, days |-> 0]
WrittenAgo(n) == [some |-> TRUE, days |-> n]
Dataset(s, w) == [slug |-> s, last_written_at |-> w]

ListedDatasets ==
    {Dataset(s, w) : s \in SlugNames, w \in {NeverWritten, WrittenAgo(0), WrittenAgo(3)}}

NoneSet == [some |-> FALSE, set |-> {}]
SomeSet(S) == [some |-> TRUE, set |-> S]
IncludeInputs == {NoneSet, SomeSet({}), SomeSet({"a"}), SomeSet({"b", "c"})}
SlugLastWritten == {0, 1, 7}

\* match include_datasets { Some(d) => d, None => HashSet::new() }
IncDatasets(include) == IF include.some THEN include.set ELSE {}

\* (now - d.last_written_at.unwrap_or(now)).num_days()
DaysSinceWritten(d) ==
    IF d.last_written_at.some THEN d.last_written_at.days ELSE 0

\* the closure of filter_map: Some(d.slug.clone()) or None
SlugOf(d, lw, inc) ==
    IF DaysSinceWritten(d) < lw
    THEN (IF inc = {} \/ d.slug \in inc THEN <<d.slug>> ELSE <<>>)
    ELSE <<>>

\* .iter().filter_map(..).collect::<Vec<_>>()
RECURSIVE FilterMapSlugs(_, _, _)
FilterMapSlugs(ds, lw, inc) ==
    IF ds = <<>> THEN <<>>
    ELSE SlugOf(Head(ds), lw, inc) \o FilterMapSlugs(Tail(ds), lw, inc)

\* One step of the sort: x put behind the elements of the sorted v that are
\* not greater than it
RECURSIVE InsertSlug(_, _)
InsertSlug(x, v) ==
    IF v = <<>> THEN <<x>>
    ELSE IF Rank(x) < Rank(Head(v)) THEN <<x>> \o v
    ELSE <<Head(v)>> \o InsertSlug(x, Tail(v))

\* datasets.sort()
RECURSIVE SortSlugs(_)
SortSlugs(v) ==
    IF v = <<>> THEN <<>>
    ELSE InsertSlug(v[Len(v)], SortSlugs(SubSeq(v, 1, Len(v) - 1)))

\* The call get_dataset_slugs(last_written, include_datasets), with the
\* request of list_all_datasets sent
InitSlugs ==
    /\ slugs \in [pc : {"send"}, last_written : SlugLastWritten,
                  include : IncludeInputs, listed : {<<>>}, result : {NoResultVec}]
    /\ plan = Idle
    /\ post = Idle
    /\ pollPlan = Idle
    /\ gv = Idle
    /\ OrdIdle
    /\ BndIdle
    /\ RunIdle

\* get: .send().await?  (and the ? of get_dataset_slugs)
SlugsSent ==
    /\ slugs.pc = "send"
    /\ \E sent \in BOOLEAN :
          slugs' = IF sent THEN [slugs EXCEPT !.pc = "text"]
                   ELSE [slugs EXCEPT !.pc = "done", !.result = ErrVec(ErrTransport)]
    /\ UNCHANGED <<postVars, pollVars, ordVars, bndVars, runVars>>

\* get: response.text().await? and from_str::<Vec<Dataset>>; then the
\* filter_map, the sort and Ok(datasets)
SlugsText ==
    /\ slugs.pc = "text"
    /\ \/ slugs' = [slugs EXCEPT !.pc = "done", !.result = ErrVec(ErrTransport)]
       \/ slugs' = [slugs EXCEPT !.pc = "done", !.result = ErrVec(ErrParse)]
       \/ \E ds \in SeqsUpTo(ListedDatasets, MaxListed) :
             slugs' = [slugs EXCEPT
                         !.pc = "done",
                         !.listed = ds,
                         !.result = Ok(SortSlugs(FilterMapSlugs(
                                        ds, slugs.last_written,
                                        IncDatasets(slugs.include))))]
    /\ UNCHANGED <<postVars, pollVars, ordVars, bndVars, runVars>>

NextSlugs == SlugsSent \/ SlugsText

SpecSlugs == InitSlugs /\ [][NextSlugs]_vars

\* ------------------------------------------------------------------------
\* Properties of get_dataset_slugs
\* ------------------------------------------------------------------------

\* The listed datasets that have been written to in the last lw days
WrittenWithin(ds, lw) ==
    {k \in 1..Len(ds) : ds[k].last_written_at.some /\ ds[k].last_written_at.days < lw}

\* How often the slug s is among the positions K of ds
SlugCount(ds, K, s) == Cardinality({k \in K : ds[k].slug = s})

Occurrences(v, s) == Cardinality({k \in 1..Len(v) : v[k] = s})

\* C12: the slugs get_dataset_slugs returns are exactly those of the listed
\* datasets that have been written to in the last `last_written` days (and
\* are in the include set when one with elements is given), in ascending
\* order; a dataset with no last-written time is not among them.
C12_SlugsWrittenWithin ==
    (slugs.pc = "done" /\ slugs.result.kind = "Ok") =>
        LET v == slugs.result.val
            inc == IncDatasets(slugs.include)
            K == {k \in WrittenWithin(slugs.listed, slugs.last_written) :
                    inc = {} \/ slugs.listed[k].slug \in inc}
        IN /\ \A s \in SlugNames : Occurrences(v, s) = SlugCount(slugs.listed, K, s)
           /\ \A k \in 1..(Len(v) - 1) : Rank(v[k]) <= Rank(v[k + 1])

\* ------------------------------------------------------------------------
\* HoneyComb::get_group_by_variants, step by step: the two posts of
\* get_query_url, then the polling loop
\*   pc       : "post1", "post2", "poll", and "done" or "panic" at its end
\*   tp       : the transport's behaviour towards the two posts and the
\*              status fetches
\*   p1, p2   : the two calls of post
\*   query_id : the "query_id" of the json given to the second post
\*   g        : the polling loop
\*   result   : the Result the call has returned
\* ------------------------------------------------------------------------

NotCalled == [PostStart EXCEPT !.pc = "none"]
NotPolling == [PollStart EXCEPT !.pc = "none"]

\* get_group_by_variants calls get_query_url, which calls its first post
CallStart(tp) ==
    [pc |-> "post1", tp |-> tp, p1 |-> PostStart, p2 |-> NotCalled,
     query_id |-> "", g |-> NotPolling, result |-> NoResultVec]

\* The ? of a post or of get_query_url: the error is returned
CallFails(st, e) == [st EXCEPT !.pc = "done", !.result = ErrVec(e)]

\* AfterPost1 going on to the second post whatever the first returned.
AfterPost1Regardless(st) ==
    IF st.p1.pc # "done" THEN st
    ELSE [st EXCEPT !.pc = "post2", !.p2 = PostStart, !.query_id = st.p1.result.val]

\* let query: Query = self.post(..).await?;  then the second post is called
\* with "query_id": query.id
AfterPost1(st) ==
    IF st.p1.pc # "done" THEN st
    ELSE IF st.p1.result.kind = "Err" THEN CallFails(st, st.p1.result.err)
    ELSE [st EXCEPT !.pc = "post2", !.p2 = PostStart, !.query_id = st.p1.result.val]

\* let query_result: QueryResult = self.post(..).await?;
\* Ok(query_result.links.query_url), .await? in get_group_by_variants, and
\* let mut results = Vec::new(); let mut polls = 50;
AfterPost2(st) ==
    IF st.p2.pc # "done" THEN st
    ELSE IF st.p2.result.kind = "Err" THEN CallFails(st, st.p2.result.err)
    ELSE [st EXCEPT !.pc = "poll", !.g = PollStart]

\* The loop has ended: with the Result it returns, or with the panic of the
\* unwrap
AfterPoll(st) ==
    IF st.g.pc = "done" THEN [st EXCEPT !.pc = "done", !.result = st.g.result]
    ELSE IF st.g.pc = "panic" THEN [st EXCEPT !.pc = "panic"]
    ELSE st

\* One step of the call, from one await point to the next
CallStep(st) ==
    CASE st.pc = "post1" ->
            AfterPost1([st EXCEPT
                !.p1 = PostStep(st.p1, PlanResponse(st.tp.post1, st.p1.sends))])
      [] st.pc = "post2" ->
            AfterPost2([st EXCEPT
                !.p2 = PostStep(st.p2, PlanResponse(st.tp.post2, st.p2.sends))])
      [] st.pc = "poll" ->
            AfterPoll([st EXCEPT
                !.g = PollStep(st.g, PollPlanResponse(st.tp.poll, st.g.fetches))])
      [] OTHER -> st

\* The transports of the call
DecodablePost(id) == [sent |-> TRUE, status |-> 200, body |-> "good", val |-> id]
CallPostPlans ==
    [throttles : {0, 1, RETRIES - 1, RETRIES},
     final : {SendFailure, DecodablePost("q1"), DecodablePost("q2"),
              [sent |-> TRUE, status |-> 500, body |-> "bad", val |-> ""],
              [sent |-> TRUE, status |-> 200, body |-> "err", val |-> ""]}]
CallPollPlans ==
    [at : {1, 2, POLLS, POLLS + 1},
     final : {StatusSendFailure,
              [sent |-> TRUE, status |-> 200, body |-> "bad", val |-> NotComplete],
              StatusAnswer(200, Status("true", Array(<<OtherRow, StrRow("y")>>))),
              StatusAnswer(TOO_MANY_REQUESTS, Status("true", NoArray)),
              StatusAnswer(200, Status("none", NoArray))}]
CallPlans == [post1 : CallPostPlans, post2 : CallPostPlans, poll : CallPollPlans]

\* The one call of this specification
call == running[1]

InitVariants ==
    /\ running \in {<<CallStart(tp)>> : tp \in CallPlans}
    /\ plan = Idle
    /\ post = Idle
    /\ pollPlan = Idle
    /\ gv = Idle
    /\ OrdIdle
    /\ BndIdle
    /\ SlugsIdle

CallPost1 ==
    /\ call.pc = "post1"
    /\ running' = [running EXCEPT ![1] = CallStep(@)]
    /\ UNCHANGED <<postVars, pollVars, ordVars, bndVars, slugVars>>

CallPost2 ==
    /\ call.pc = "post2"
    /\ running' = [running EXCEPT ![1] = CallStep(@)]
    /\ UNCHANGED <<postVars, pollVars, ordVars, bndVars, slugVars>>

CallPoll ==
    /\ call.pc = "poll"
    /\ running' = [running EXCEPT ![1] = CallStep(@)]
    /\ UNCHANGED <<postVars, pollVars, ordVars, bndVars, slugVars>>

NextVariants == CallPost1 \/ CallPost2 \/ CallPoll

SpecVariants == InitVariants /\ [][NextVariants]_vars

\* ------------------------------------------------------------------------
\* Properties of one call of get_group_by_variants
\* ------------------------------------------------------------------------

\* C18: the second post is called only once the first has returned Ok, and
\* with the query id the first returned; a status fetch is sent only once
\* both posts have returned Ok; when a post returns an error, nothing later
\* is done (no second post, no status fetch) and the call returns that
\* error.
C18_StepOrder ==
    /\ call.p2.pc # "none" =>
          /\ call.p1.pc = "done"
          /\ call.p1.result.kind = "Ok"
          /\ call.query_id = call.p1.result.val
    /\ call.p2.sends > 0 => call.p2.pc # "none"
    /\ call.g.pc # "none" =>
          /\ call.p1.pc = "done" /\ call.p1.result.kind = "Ok"
          /\ call.p2.pc = "done" /\ call.p2.result.kind = "Ok"
    /\ call.g.fetches > 0 => call.g.pc # "none"
    /\ call.p1.result.kind = "Err" =>
          /\ call.p2 = NotCalled
          /\ call.g = NotPolling
          /\ call.pc = "done"
          /\ call.result = ErrVec(call.p1.result.err)
    /\ call.p2.result.kind = "Err" =>
          /\ call.g = NotPolling
          /\ call.pc = "done"
          /\ call.result = ErrVec(call.p2.result.err)

\* The first status fetch is in flight after the first post returned the id
\* "q2" on its second attempt and the second post, given "q2", returned Ok.
C18_Witness ==
    /\ call.pc = "poll"
    /\ call.g.pc = "send"
    /\ call.g.fetches = 1
    /\ call.p1.result = Ok("q2")
    /\ call.p1.sends = 2
    /\ call.query_id = "q2"
    /\ call.p2.result.kind = "Ok"

\* C15: a call of get_group_by_variants sends at most 24 POST requests, 12
\* for each post, and at most 50 status fetches, and it returns: as long as
\* it has not returned, it has a step to take.
C15_Terminates ==
    /\ call.p1.sends <= RETRIES
    /\ call.p2.sends <= RETRIES
    /\ call.p1.sends + call.p2.sends <= 2 * RETRIES
    /\ call.g.fetches <= POLLS
    /\ call.pc = "done" \/ ENABLED NextVariants

\* ------------------------------------------------------------------------
\* HoneyComb::get_all_group_by_variants with its fetches followed step by
\* step: running[i] is the call of get_group_by_variants for the column id
\* at position i
\* ------------------------------------------------------------------------

\* The future of a column id the stream has not given yet
Unpolled == [pc |-> "none"]

\* The transports a fetch may meet: one that answers at once, one that
\* rate-limits the first post once and completes on the second status fetch,
\* one that fails the send of the second post, and one whose status has no
\* boolean "complete"
StepPlans ==
    {[post1 |-> GoodPost, post2 |-> GoodPost,
      poll |-> [at |-> 1, final |-> StatusAnswer(200, Status("true", Array(<<StrRow("x")>>)))]],
     [post1 |-> [GoodPost EXCEPT !.throttles = 1], post2 |-> GoodPost,
      poll |-> [at |-> 2, final |-> StatusAnswer(200, Status("true", Array(<<OtherRow, StrRow("y")>>)))]],
     [post1 |-> GoodPost, post2 |-> [throttles |-> 0, final |-> SendFailure],
      poll |-> [at |-> 1, final |-> StatusSendFailure]],
     [post1 |-> GoodPost, post2 |-> GoodPost,
      poll |-> [at |-> 1, final |-> StatusAnswer(200, Status("none", NoArray))]]}

\* Stepped with every fetch in flight taking a step when one does.
SteppedTogether(i) ==
    [j \in DOMAIN running |->
        IF j \in in_progress THEN CallStep(running[j]) ELSE running[j]]

\* The future at position i is polled and runs to its next await point
Stepped(i) == [running EXCEPT ![i] = CallStep(@)]

InitFetches ==
    /\ columns_ids \in {SubSeq(ColumnIds, 1, n) : n \in 0..MaxStepColumns}
    /\ next_item = 1
    /\ started = <<>>
    /\ in_progress = {}
    /\ fetched = [i \in 1..Len(columns_ids) |-> NoResultVec]
    /\ results = <<>>
    /\ order = <<>>
    /\ bar = [pos |-> 0, len |-> Len(columns_ids)]
    /\ bounded = [pc |-> "running", result |-> "None"]
    /\ running = [i \in 1..Len(columns_ids) |-> Unpolled]
    /\ plan = Idle
    /\ post = Idle
    /\ pollPlan = Idle
    /\ gv = Idle
    /\ OrdIdle
    /\ SlugsIdle

\* BufferUnordered::poll_next takes the next column id from the stream and
\* pushes its future, while the buffer has room: get_group_by_variants is
\* called for it.
FetStart ==
    /\ bounded.pc = "running"
    /\ HasRoom
    /\ next_item <= Len(columns_ids)
    /\ in_progress' = in_progress \cup {next_item}
    /\ next_item' = next_item + 1
    /\ started' = Append(started, next_item)
    /\ \E tp \in StepPlans : running' = [running EXCEPT ![next_item] = CallStart(tp)]
    /\ UNCHANGED <<columns_ids, fetched, results, order, bar, bounded,
                   postVars, pollVars, ordVars, slugVars>>

\* A future of the buffer is polled and stays pending: it has sent a
\* request, gone to a backoff sleep or a poll sleep, or woken from one.
FetStep(i) ==
    /\ bounded.pc = "running"
    /\ BufferFilled
    /\ i \in in_progress
    /\ Stepped(i)[i].pc \notin {"done", "panic"}
    /\ running' = Stepped(i)
    /\ UNCHANGED <<bndVars, postVars, pollVars, ordVars, slugVars>>

\* A future of the buffer is polled and returns; tasks.next() yields its
\* pair: bar.inc(1); results.push(result);
FetComplete(i) ==
    /\ bounded.pc = "running"
    /\ BufferFilled
    /\ i \in in_progress
    /\ Stepped(i)[i].pc = "done"
    /\ running' = Stepped(i)
    /\ fetched' = [fetched EXCEPT ![i] = Stepped(i)[i].result]
    /\ results' = Collected(VariantsPair(columns_ids[i], Stepped(i)[i].result))
    /\ in_progress' = in_progress \ {i}
    /\ order' = Append(order, i)
    /\ bar' = BarInc(bar)
    /\ UNCHANGED <<columns_ids, next_item, started, bounded, postVars, pollVars,
                   ordVars, slugVars>>

\* A future of the buffer is polled and panics (the unwrap of
\* value["complete"].as_bool()): the panic unwinds through
\* tasks.next().await and get_all_group_by_variants.
FetPanic(i) ==
    /\ bounded.pc = "running"
    /\ BufferFilled
    /\ i \in in_progress
    /\ Stepped(i)[i].pc = "panic"
    /\ running' = Stepped(i)
    /\ bounded' = [pc |-> "panic", result |-> "None"]
    /\ UNCHANGED <<columns_ids, next_item, started, in_progress, fetched,
                   results, order, bar, postVars, pollVars, ordVars, slugVars>>

\* tasks.next() gives None; bar.finish_and_clear(); Ok(results)
FetReturn ==
    /\ bounded.pc = "running"
    /\ next_item > Len(columns_ids)
    /\ in_progress = {}
    /\ bounded' = [pc |-> "done", result |-> "Ok"]
    /\ UNCHANGED <<columns_ids, next_item, started, in_progress, fetched,
                   results, order, bar, runVars, postVars, pollVars, ordVars,
                   slugVars>>

NextFetches ==
    \/ FetStart
    \/ \E i \in in_progress : FetStep(i)
    \/ \E i \in in_progress : FetComplete(i)
    \/ \E i \in in_progress : FetPanic(i)
    \/ FetReturn

SpecFetches == InitFetches /\ [][NextFetches]_vars

\* ------------------------------------------------------------------------
\* Frame of the fetches of get_all_group_by_variants
\* ------------------------------------------------------------------------

\* The step is one of the fetch at position i that leaves it pending
PendingStepOf(i) ==
    /\ running'[i] # running[i]
    /\ running'[i].pc \notin {"done", "panic"}

\* The step is the one in which the fetch at position i returns
CompletionOf(i) ==
    /\ running[i].pc \notin {"done", "none"}
    /\ running'[i].pc = "done"

\* C16: a step of one fetch (its call, a request sent, a backoff sleep, a
\* status fetch, a poll sleep) changes the state of no other fetch, their
\* retry and poll counters included, and, unless the fetch returns in it,
\* leaves the result buffer and the progress counter as they are; the result
\* buffer and the progress counter change only in the step in which a fetch
\* returns and the aggregator collects its pair.
C16_FetchFrame ==
    [][/\ \A i \in Positions :
             running'[i] # running[i] =>
                 \A j \in Positions \ {i} : running'[j] = running[j]
       /\ \A i \in Positions :
             PendingStepOf(i) =>
                 /\ results' = results
                 /\ bar' = bar
                 /\ fetched' = fetched
       /\ (results' # results \/ bar' # bar) =>
             \E i \in Positions :
                 /\ CompletionOf(i)
                 /\ results' = Append(results, VariantsPair(columns_ids[i], running'[i].result))
                 /\ bar' = [bar EXCEPT !.pos = @ + 1]]_vars

\* The second fetch is in its poll sleep after a backoff sleep of its first
\* post, with its retry and poll counters used, and the third is in its
\* second post, while the first fetch has returned and its pair is the only
\* one collected.
C16_Witness ==
    /\ Len(columns_ids) = 3
    /\ running[1].pc = "done"
    /\ running[2].pc = "poll"
    /\ running[2].g.pc = "sleep"
    /\ running[2].p1.retries = RETRIES - 1
    /\ running[3].pc = "post2"
    /\ running[3].p2.pc = "send"
    /\ Len(results) = 1
    /\ bar.pos = 1

====
